---- MODULE Spec2Model ----
(***************************************************************************)
(* vgen: LFSR Verilog generators.                                          *)
(*   vgen_rand.py  - parallel (combinational) pseudo-random module         *)
(*   vgen_lfsr.py  - sequential (clocked) LFSR module                      *)
(* Python strings are sequences of one-character strings; Python lists    *)
(* are sequences; Python sets are sets; cur_sets is indexed from 0.        *)
(***************************************************************************)
EXTENDS Integers, Sequences, FiniteSets, TLC

\* ---------------------------------------------------------------- bounds
MaxBinDigits == 4
MaxHexDigits == 1
MaxN == 2
MaxCycles == 4

\* characters that may follow the prefix of the -g argument
DigitChars == {"0", "1", "2"}
Suffixes == {"hex", "bin"}

\* ------------------------------------------------------- python built-ins
RECURSIVE Pow2(_)
Pow2(n) == IF n <= 0 THEN 1 ELSE 2 * Pow2(n - 1)

startswith(s, p) == Len(s) >= Len(p) /\ SubSeq(s, 1, Len(p)) = p

\* value of one digit character, -1 when it is no digit at all
DigitVal(c) ==
    CASE c = "0" -> 0 [] c = "1" -> 1 [] c = "2" -> 2 [] c = "3" -> 3
      [] c = "4" -> 4 [] c = "5" -> 5 [] c = "6" -> 6 [] c = "7" -> 7
      [] c = "8" -> 8 [] c = "9" -> 9 [] c = "a" -> 10 [] c = "b" -> 11
      [] c = "c" -> 12 [] c = "d" -> 13 [] c = "e" -> 14 [] c = "f" -> 15
      [] OTHER -> -1

DigitChar(d) ==
    CASE d = 0 -> "0" [] d = 1 -> "1" [] d = 2 -> "2" [] d = 3 -> "3"
      [] d = 4 -> "4" [] d = 5 -> "5" [] d = 6 -> "6" [] d = 7 -> "7"
      [] d = 8 -> "8" [] d = 9 -> "9" [] d = 10 -> "a" [] d = 11 -> "b"
      [] d = 12 -> "c" [] d = 13 -> "d" [] d = 14 -> "e" [] OTHER -> "f"

\* eval() raises SyntaxError
SyntaxError == -1

RECURSIVE DigitsValue(_, _, _)
DigitsValue(s, base, acc) ==
    IF s = <<>> THEN acc
    ELSE DigitsValue(Tail(s), base, acc * base + DigitVal(Head(s)))

IsDigits(s, base) ==
    /\ Len(s) >= 1
    /\ \A i \in 1..Len(s) : DigitVal(s[i]) >= 0 /\ DigitVal(s[i]) < base

\* eval(text) for a text made of an optional 0b/0x prefix and digit
\* characters: an integer literal evaluates to its value (a decimal literal
\* may not have a leading zero unless it is all zeros), anything else is a
\* SyntaxError
eval(s) ==
    IF startswith(s, <<"0", "b">>) THEN
        IF IsDigits(SubSeq(s, 3, Len(s)), 2)
        THEN DigitsValue(SubSeq(s, 3, Len(s)), 2, 0) ELSE SyntaxError
    ELSE IF startswith(s, <<"0", "x">>) THEN
        IF IsDigits(SubSeq(s, 3, Len(s)), 16)
        THEN DigitsValue(SubSeq(s, 3, Len(s)), 16, 0) ELSE SyntaxError
    ELSE IF IsDigits(s, 10)
              /\ (s[1] = "0" => \A i \in 1..Len(s) : s[i] = "0")
        THEN DigitsValue(s, 10, 0) ELSE SyntaxError

RECURSIVE ToDigits(_, _)
ToDigits(v, base) ==
    IF v < base THEN <<DigitChar(v)>>
    ELSE Append(ToDigits(v \div base, base), DigitChar(v % base))

bin(v) == <<"0", "b">> \o ToDigits(v, 2)
hex(v) == <<"0", "x">> \o ToDigits(v, 16)

\* ------------------------------------------------------ parse_polynomial
\* variant: the index is taken as lfsr_len-ii
RECURSIVE OneIndicesLoopOffByOne(_, _, _, _)
OneIndicesLoopOffByOne(bin_str, lfsr_len, ii, acc) ==
    IF ii >= Len(bin_str) THEN acc
    ELSE OneIndicesLoopOffByOne(bin_str, lfsr_len, ii + 1,
            IF bin_str[ii + 1] = "1" THEN Append(acc, lfsr_len - ii)
            ELSE acc)

\* the loop "for ii in range(len(bin_str))" of parse_polynomial, from ii on
RECURSIVE OneIndicesLoop(_, _, _, _)
OneIndicesLoop(bin_str, lfsr_len, ii, acc) ==
    IF ii >= Len(bin_str) THEN acc
    ELSE OneIndicesLoop(bin_str, lfsr_len, ii + 1,
            IF bin_str[ii + 1] = "1" THEN Append(acc, lfsr_len - 1 - ii)
            ELSE acc)

Raise(e) == [ok |-> FALSE, err |-> e, lfsr_len |-> 0, one_indices |-> <<>>]

\* variant: the all-zeros assertion is missing
ParseBinaryNoZeroCheck(gp) ==
    IF eval(gp) = SyntaxError THEN Raise("SyntaxError")
    ELSE LET bin_str == SubSeq(gp, 3, Len(gp))
             len == Len(bin_str)
         IN [ok |-> TRUE, err |-> "",
             lfsr_len |-> len,
             one_indices |-> OneIndicesLoop(bin_str, len, 0, <<>>)]

\* the part of parse_polynomial after the hex conversion
ParseBinary(gp) ==
    IF eval(gp) = SyntaxError THEN Raise("SyntaxError")
    ELSE IF ~(eval(gp) # 0) THEN Raise("AssertionError")
    ELSE LET bin_str == SubSeq(gp, 3, Len(gp))
             len == Len(bin_str)
         IN [ok |-> TRUE, err |-> "",
             lfsr_len |-> len,
             one_indices |-> OneIndicesLoop(bin_str, len, 0, <<>>)]

parse_polynomial(gen_poly) ==
    IF ~(startswith(gen_poly, <<"0", "b">>) \/ startswith(gen_poly, <<"0", "x">>))
    THEN Raise("AssertionError")
    ELSE IF startswith(gen_poly, <<"0", "x">>)
    THEN IF eval(gen_poly) = SyntaxError THEN Raise("SyntaxError")
         ELSE ParseBinary(bin(eval(gen_poly)))
    ELSE ParseBinary(gen_poly)

\* parse_polynomial of vgen_lfsr.py (the same text as in vgen_rand.py)
lfsr_parse_polynomial(gen_poly) ==
    IF ~(startswith(gen_poly, <<"0", "b">>) \/ startswith(gen_poly, <<"0", "x">>))
    THEN Raise("AssertionError")
    ELSE IF startswith(gen_poly, <<"0", "x">>)
    THEN IF eval(gen_poly) = SyntaxError THEN Raise("SyntaxError")
         ELSE ParseBinary(bin(eval(gen_poly)))
    ELSE ParseBinary(gen_poly)

\* ------------------------------------------------------------ gen_random
\* variant: the common elements are not removed
xor_two_sets_union(set1, set2) == set1 \cup set2

xor_two_sets(set1, set2) == (set1 \cup set2) \ (set1 \cap set2)

\* variant: the cells start in the reverse order
InitSetsReversed(len) == [ii \in 0..(len - 1) |-> {len - 1 - ii}]

\* cur_sets = [{ii} for ii in range(lfsr_len)]
InitSets(len) == [ii \in 0..(len - 1) |-> {ii}]

\* variant: the loop starts at the second tap, range(1, len(one_indices))
RECURSIVE XorLoopSkipFirst(_, _, _, _)
XorLoopSkipFirst(sets, taps, oo, xor_out) ==
    IF oo >= Len(taps) THEN xor_out
    ELSE XorLoopSkipFirst(sets, taps, oo + 1,
            IF oo = 0 THEN xor_out
            ELSE (xor_out \cup sets[taps[oo + 1]]) \ (xor_out \cap sets[taps[oo + 1]]))

\* the loop "for oo in range(len(one_indices))", from oo on (oo from 0)
RECURSIVE XorLoop(_, _, _, _)
XorLoop(sets, taps, oo, xor_out) ==
    IF oo >= Len(taps) THEN xor_out
    ELSE XorLoop(sets, taps, oo + 1, xor_two_sets(xor_out, sets[taps[oo + 1]]))

\* variant: the loop runs upward, for ii in range(1, lfsr_len), so every
\* cell takes the value cell 0 had
ShiftLoopUpward(sets, ii) ==
    [j \in DOMAIN sets |-> IF j >= 1 /\ j <= ii THEN sets[0] ELSE sets[j]]

\* the loop "for ii in range(lfsr_len-1,0,-1)", from ii on, updating in place
RECURSIVE ShiftLoop(_, _)
ShiftLoop(sets, ii) ==
    IF ii <= 0 THEN sets
    ELSE ShiftLoop([sets EXCEPT ![ii] = sets[ii - 1]], ii - 1)

\* ------------------------------------------- gen_verilog of vgen_rand.py
\* the loop "for ii in range(lfsr_len-1,-1,-1)": the bit string of the
\* polynomial and the exponents of poly_str
RECURSIVE PolyLoop(_, _, _, _)
PolyLoop(taps, ii, bits, exps) ==
    IF ii < 0 THEN [bits |-> bits, exps |-> exps]
    ELSE IF \E k \in 1..Len(taps) : taps[k] = ii
         THEN PolyLoop(taps, ii - 1, Append(bits, "1"), Append(exps, ii + 1))
         ELSE PolyLoop(taps, ii - 1, Append(bits, "0"), exps)

\* list(a_set): the elements in the set's iteration order, which the
\* language leaves unspecified: any arrangement of the elements
RECURSIVE ListsOf(_)
ListsOf(S) ==
    IF S = {} THEN {<<>>}
    ELSE UNION {{<<x>> \o q : q \in ListsOf(S \ {x})} : x \in S}

\* one iteration order for each term of rand_out
RECURSIVE IterationOrders(_)
IterationOrders(terms) ==
    IF terms = <<>> THEN {<<>>}
    ELSE {<<h>> \o t : h \in ListsOf(Head(terms)), t \in IterationOrders(Tail(terms))}

\* the text of one "assign out[ww] = ..." statement, as the seed indices in
\* the order written: list(term)[0], then list(term)[ii] for ii from 1 on
\* (lst is list(term), indexed from 1 here)
AssignLine(lst) == <<lst[1]>> \o [ii \in 1..(Len(lst) - 1) |-> lst[ii + 1]]

\* the module text of vgen_rand.py, or the place where building it raises
\* (where = "before_open": no file; "after_open": the file was created and
\* is left empty)
rand_gen_verilog(terms, orders, len, taps, prefix, sfx) ==
    LET poly == PolyLoop(taps, len - 1, <<>>, <<>>)
        bin_str == <<"0", "b">> \o poly.bits
    IN IF sfx = "hex" /\ eval(bin_str) = SyntaxError
       THEN [ok |-> FALSE, where |-> "before_open", err |-> "SyntaxError"]
       ELSE IF \E w \in 1..Len(terms) : terms[w] = {}
       THEN [ok |-> FALSE, where |-> "after_open", err |-> "IndexError"]
       ELSE [ok |-> TRUE,
             name |-> [prefix |-> prefix, lfsr_len |-> len, out_wd |-> Len(terms),
                       suffix_str |-> IF sfx = "hex" THEN hex(eval(bin_str)) ELSE bin_str],
             poly_str |-> poly.exps,
             seed_wd |-> len,
             out_wd |-> Len(terms),
             assigns |-> [w \in 1..Len(terms) |-> AssignLine(orders[w])]]

\* ------------------------------------------- gen_verilog of vgen_lfsr.py
\* the module text of vgen_lfsr.py: the feedback assignment reads the bits
\* one_indices[0], one_indices[1:] in that order, and the non-reset branch
\* assigns the concatenation {lsfr[lfsr_len-2:0], fb}
lfsr_gen_verilog(len, taps, prefix) ==
    LET poly == PolyLoop(taps, len - 1, <<>>, <<>>)
    IN IF taps = <<>>
       THEN [ok |-> FALSE, where |-> "after_open", err |-> "IndexError"]
       ELSE [ok |-> TRUE,
             name |-> [prefix |-> prefix, lfsr_len |-> len, bin_str |-> poly.bits],
             poly_str |-> poly.exps,
             seed_wd |-> len,
             lfsr_wd |-> len,
             fb_taps |-> <<taps[1]>> \o SubSeq(taps, 2, Len(taps)),
             shift_hi |-> len - 2,
             shift_lo |-> 0]

\* ------------------------------------ the emitted sequential module's rule
\* a bit is 0, 1 or X (unknown: a bit read outside the declared range)
X == 2
XorBit(a, b) == IF a = X \/ b = X THEN X ELSE (a + b) % 2
BitSelect(reg, i) == IF i \in DOMAIN reg THEN reg[i] ELSE X

\* assign fb = lsfr[t1] ^ lsfr[t2] ^ ...
RECURSIVE FeedbackBit(_, _)
FeedbackBit(reg, taps) ==
    IF Len(taps) = 1 THEN BitSelect(reg, taps[1])
    ELSE XorBit(BitSelect(reg, taps[1]), FeedbackBit(reg, Tail(taps)))

\* lsfr[hi:lo], least-significant bit first
PartSelect(reg, hi, lo) ==
    LET n == (IF hi >= lo THEN hi - lo ELSE lo - hi) + 1
    IN [j \in 1..n |-> BitSelect(reg, IF hi >= lo THEN lo + j - 1 ELSE lo - j + 1)]

\* lfsr <= {lsfr[hi:lo], fb}: fb is the least-significant bit of the
\* concatenation; the assignment keeps the low wd bits and zero-extends
ShiftAssign(reg, wd, hi, lo, fb) ==
    LET cat == <<fb>> \o PartSelect(reg, hi, lo)
    IN [i \in 0..(wd - 1) |-> IF i + 1 <= Len(cat) THEN cat[i + 1] ELSE 0]

\* value of a symbolic term on a concrete seed: XOR of the seed bits in it
RECURSIVE TermValue(_, _)
TermValue(term, sd) ==
    IF term = {} THEN 0
    ELSE LET i == CHOOSE j \in term : TRUE
         IN (sd[i] + TermValue(term \ {i}, sd)) % 2

\* ------------------------------------------------------------------ state
VARIABLES
    gen_poly,     \* -g argument, given to both generators
    out_width,    \* -w argument of vgen_rand.py
    suffix,       \* -s argument of vgen_rand.py
    pc,           \* vgen_rand.py: position in main
    lfsr_len,     \* vgen_rand.py: result of parse_polynomial
    one_indices,
    cur_sets,     \* gen_random: the register snapshot
    rand_out,     \* gen_random: the terms recorded so far
    ww,           \* gen_random: cycle counter
    rand_file,    \* vgen_rand.py: the output file
    seq_pc,       \* vgen_lfsr.py: position in main
    seq_len,      \* vgen_lfsr.py: result of parse_polynomial
    seq_indices,
    seq_file,     \* vgen_lfsr.py: the output file
    seed,         \* emitted sequential module: seed input at the last reset
    lfsr,         \* emitted sequential module: the register
    fb_trace      \* feedback bits of the non-reset clock steps since reset

vars == <<gen_poly, out_width, suffix, pc, lfsr_len, one_indices, cur_sets,
          rand_out, ww, rand_file, seq_pc, seq_len, seq_indices, seq_file,
          seed, lfsr, fb_trace>>

inputs == <<gen_poly, out_width, suffix>>
rand_vars == <<pc, lfsr_len, one_indices, cur_sets, rand_out, ww, rand_file>>
seq_vars == <<seq_pc, seq_len, seq_indices, seq_file>>
hw_vars == <<seed, lfsr, fb_trace>>

DigitStrings(n) == UNION {[1..k -> DigitChars] : k \in 0..n}

GenPolyInputs ==
    {p \o d : p \in {<<>>, <<"0", "b">>}, d \in DigitStrings(MaxBinDigits)}
    \cup {<<"0", "x">> \o d : d \in DigitStrings(MaxHexDigits)}

NoFile == [state |-> "absent", code |-> <<>>]

Start ==
    /\ pc = "parse"
    /\ lfsr_len = 0
    /\ one_indices = <<>>
    /\ cur_sets = <<>>
    /\ rand_out = <<>>
    /\ ww = 0
    /\ rand_file = NoFile
    /\ seq_pc = "parse"
    /\ seq_len = 0
    /\ seq_indices = <<>>
    /\ seq_file = NoFile
    /\ seed = <<>>
    /\ lfsr = <<>>
    /\ fb_trace = <<>>

Init ==
    /\ gen_poly \in GenPolyInputs
    /\ out_width \in -1..MaxN
    /\ suffix \in Suffixes
    /\ Start

\* ------------------------------------------------------- vgen_rand.py main
\* lfsr_len, one_indices = parse_polynomial(gen_poly = args['gen_poly'])
RandParse ==
    /\ pc = "parse"
    /\ LET r == parse_polynomial(gen_poly)
       IN IF r.ok
          THEN /\ pc' = "gen_random"
               /\ lfsr_len' = r.lfsr_len
               /\ one_indices' = r.one_indices
          ELSE /\ pc' = "failed"
               /\ UNCHANGED <<lfsr_len, one_indices>>
    /\ UNCHANGED <<inputs, cur_sets, rand_out, ww, rand_file, seq_vars, hw_vars>>

\* gen_random is entered: rand_out = [], cur_sets = [{ii} ...]
GenRandomBegin ==
    /\ pc = "gen_random"
    /\ pc' = "loop"
    /\ rand_out' = <<>>
    /\ cur_sets' = InitSets(lfsr_len)
    /\ ww' = 0
    /\ UNCHANGED <<inputs, lfsr_len, one_indices, rand_file, seq_vars, hw_vars>>

\* one iteration of "for ww in range(rand_wd)"
GenRandomCycle ==
    /\ pc = "loop"
    /\ ww < out_width
    /\ LET xor_out == XorLoop(cur_sets, one_indices, 0, {})
       IN /\ cur_sets' = [ShiftLoop(cur_sets, lfsr_len - 1) EXCEPT ![0] = xor_out]
          /\ rand_out' = Append(rand_out, xor_out)
    /\ ww' = ww + 1
    /\ UNCHANGED <<inputs, pc, lfsr_len, one_indices, rand_file, seq_vars, hw_vars>>

\* the loop is over: return rand_out
GenRandomReturn ==
    /\ pc = "loop"
    /\ ~(ww < out_width)
    /\ pc' = "gen_verilog"
    /\ UNCHANGED <<inputs, lfsr_len, one_indices, cur_sets, rand_out, ww,
                   rand_file, seq_vars, hw_vars>>

\* gen_verilog(rand_out, lfsr_len, one_indices, prefix, suffix)
RandGenVerilog ==
    /\ pc = "gen_verilog"
    /\ \E orders \in IterationOrders(rand_out) :
         LET r == rand_gen_verilog(rand_out, orders, lfsr_len, one_indices, "vgen", suffix)
         IN IF r.ok
            THEN /\ rand_file' = [state |-> "written", code |-> r]
                 /\ pc' = "done"
            ELSE /\ rand_file' = IF r.where = "after_open"
                                 THEN [state |-> "opened", code |-> <<>>]
                                 ELSE rand_file
                 /\ pc' = "failed"
    /\ UNCHANGED <<inputs, lfsr_len, one_indices, cur_sets, rand_out, ww,
                   seq_vars, hw_vars>>

\* ------------------------------------------------------- vgen_lfsr.py main
SeqParse ==
    /\ seq_pc = "parse"
    /\ LET r == lfsr_parse_polynomial(gen_poly)
       IN IF r.ok
          THEN /\ seq_pc' = "gen_verilog"
               /\ seq_len' = r.lfsr_len
               /\ seq_indices' = r.one_indices
          ELSE /\ seq_pc' = "failed"
               /\ UNCHANGED <<seq_len, seq_indices>>
    /\ UNCHANGED <<inputs, rand_vars, seq_file, hw_vars>>

\* gen_verilog(lfsr_len, one_indices, prefix)
SeqGenVerilog ==
    /\ seq_pc = "gen_verilog"
    /\ LET r == lfsr_gen_verilog(seq_len, seq_indices, "vgen")
       IN IF r.ok
          THEN /\ seq_file' = [state |-> "written", code |-> r]
               /\ seq_pc' = "done"
          ELSE /\ seq_file' = [state |-> "opened", code |-> <<>>]
               /\ seq_pc' = "failed"
    /\ UNCHANGED <<inputs, rand_vars, seq_len, seq_indices, hw_vars>>

\* ----------------------------------- the emitted sequential module, clocked
\* posedge clk with rst asserted: lfsr <= seed
Reset ==
    /\ seq_file.state = "written"
    /\ \E s \in [0..(seq_file.code.seed_wd - 1) -> {0, 1}] :
         /\ seed' = s
         /\ lfsr' = s
    /\ fb_trace' = <<>>
    /\ UNCHANGED <<inputs, rand_vars, seq_vars>>

\* posedge clk with rst not asserted: lfsr <= {lsfr[lfsr_len-2:0], fb}
\* (the register is unknown until the first reset; steps before it are left out)
Clock ==
    /\ seq_file.state = "written"
    /\ lfsr # <<>>
    /\ Len(fb_trace) < MaxCycles
    /\ LET c == seq_file.code
           fb == FeedbackBit(lfsr, c.fb_taps)
       IN /\ lfsr' = ShiftAssign(lfsr, c.lfsr_wd, c.shift_hi, c.shift_lo, fb)
          /\ fb_trace' = Append(fb_trace, fb)
    /\ UNCHANGED <<inputs, rand_vars, seq_vars, seed>>

\* --------------------------------------------------------- specifications
\* both generators run on the same polynomial
Next ==
    \/ RandParse
    \/ GenRandomBegin
    \/ GenRandomCycle
    \/ GenRandomReturn
    \/ RandGenVerilog
    \/ SeqParse
    \/ SeqGenVerilog

Spec == Init /\ [][Next]_vars

\* the symbolic expansion next to the emitted sequential module under clock
NextRoundTrip ==
    \/ RandParse
    \/ GenRandomBegin
    \/ GenRandomCycle
    \/ GenRandomReturn
    \/ SeqParse
    \/ SeqGenVerilog
    \/ Reset
    \/ Clock

InitRoundTrip ==
    /\ gen_poly \in GenPolyInputs
    /\ out_width \in 0..MaxCycles
    /\ suffix = "hex"
    /\ Start

SpecRoundTrip == InitRoundTrip /\ [][NextRoundTrip]_vars

\* ----------------------------------------------------------------- claims
SeqToSet(q) == {q[k] : k \in 1..Len(q)}
SetMax(S) == CHOOSE m \in S : \A n \in S : n <= m
Prefixed(s) == startswith(s, <<"0", "b">>) \/ startswith(s, <<"0", "x">>)
Parsed == pc \notin {"parse", "failed"}
SeqParsed == seq_pc \notin {"parse", "failed"}

TopTapIsWidth ==
    /\ Parsed => one_indices # <<>> /\ SetMax(SeqToSet(one_indices)) = lfsr_len - 1
    /\ SeqParsed => seq_indices # <<>> /\ SetMax(SeqToSet(seq_indices)) = seq_len - 1

\* C3: a hexadecimal literal and the binary literal of the same value v
\* (written without leading zeros) parse to the same result, fixed by v alone:
\* the taps are the positions of the 1 bits of v, listed from the highest
\* down, and the width is the position of the highest 1 bit plus 1
RECURSIVE ValueOf(_, _)
ValueOf(digits, base) ==
    IF digits = <<>> THEN 0
    ELSE DigitVal(digits[Len(digits)]) + base * ValueOf(SubSeq(digits, 1, Len(digits) - 1), base)

LiteralBase == IF startswith(gen_poly, <<"0", "x">>) THEN 16 ELSE 2
LiteralDigits == SubSeq(gen_poly, 3, Len(gen_poly))
WellFormed == Prefixed(gen_poly) /\ IsDigits(LiteralDigits, LiteralBase)
LiteralValue == ValueOf(LiteralDigits, LiteralBase)
NoLeadingZero == LiteralBase = 16 \/ LiteralDigits[1] = "1"
Bit(v, i) == (v \div Pow2(i)) % 2

TapsAreOneBits ==
    /\ (WellFormed /\ LiteralValue # 0) => pc # "failed"
    /\ (Parsed /\ NoLeadingZero) =>
          /\ LiteralValue >= Pow2(lfsr_len - 1)
          /\ LiteralValue < Pow2(lfsr_len)
          /\ SeqToSet(one_indices) = {i \in 0..(lfsr_len - 1) : Bit(LiteralValue, i) = 1}
          /\ \A k \in 1..(Len(one_indices) - 1) : one_indices[k] > one_indices[k + 1]

HexLiteralParsed ==
    /\ gen_poly = <<"0", "x", "2">>
    /\ Parsed
    /\ lfsr_len = 2
    /\ one_indices = <<1>>

\* C4: every term gen_random records is a non-empty subset of [0, width),
\* at every cycle and when it returns to gen_verilog
TermsLive ==
    \A k \in 1..Len(rand_out) :
        rand_out[k] # {} /\ rand_out[k] \subseteq 0..(lfsr_len - 1)

TermsReturned ==
    /\ pc = "gen_verilog"
    /\ Len(rand_out) = 4
    /\ gen_poly = <<"0", "b", "0", "1", "1", "0">>

\* C5: in both generators a literal without prefix and a literal of value
\* zero fail in parse_polynomial, and a failed run has not opened its file
ZeroLiteral ==
    /\ Prefixed(gen_poly)
    /\ Len(gen_poly) >= 3
    /\ \A i \in 3..Len(gen_poly) : gen_poly[i] = "0"

FailsBeforeWrite ==
    /\ (~Prefixed(gen_poly) \/ ZeroLiteral) =>
          /\ pc \in {"parse", "failed"}
          /\ seq_pc \in {"parse", "failed"}
    /\ pc = "failed" => rand_file.state = "absent"
    /\ seq_pc = "failed" => seq_file.state = "absent"
    /\ rand_file.state \in {"absent", "written"}
    /\ seq_file.state \in {"absent", "written"}

ZeroLiteralFailed ==
    /\ gen_poly = <<"0", "x", "0">>
    /\ pc = "failed"
    /\ seq_pc = "failed"

\* C6: a negative out_width is rejected before gen_random is entered and
\* no file is produced for it
NegativeWidthRejected ==
    out_width < 0 =>
        /\ pc \notin {"loop", "gen_verilog", "done"}
        /\ rand_file.state = "absent"

\* C7: every emitted assignment lists the indices of its term in ascending
\* order, each once
IsAscending(q) == \A i \in 1..(Len(q) - 1) : q[i] < q[i + 1]

AssignsAscending ==
    rand_file.state = "written" =>
        \A w \in 1..Len(rand_out) :
            /\ IsAscending(rand_file.code.assigns[w])
            /\ SeqToSet(rand_file.code.assigns[w]) = rand_out[w]

\* C8: the first term gen_random records is the set of tap indices
FirstTermIsTaps ==
    Len(rand_out) >= 1 => rand_out[1] = SeqToSet(one_indices)

FirstTermRecorded ==
    /\ gen_poly = <<"0", "b", "1", "0", "1", "1">>
    /\ rand_out # <<>>
    /\ rand_out[1] = {0, 1, 3}

\* C9: a cycle of gen_random takes the feedback term from the snapshot as it
\* was before the shift, moves every cell one index up, puts the feedback
\* term in cell 0 and appends it to the result; recorded terms never change,
\* and the loop ends with exactly out_width terms (none for 0)
SymDiffAtTaps(sets, taps) ==
    {s \in UNION {sets[i] : i \in DOMAIN sets} :
        Cardinality({k \in 1..Len(taps) : s \in sets[taps[k]]}) % 2 = 1}

CycleShifts ==
    [][/\ ww' = ww + 1 =>
            LET fb == SymDiffAtTaps(cur_sets, one_indices)
            IN /\ DOMAIN cur_sets' = 0..(lfsr_len - 1)
               /\ cur_sets'[0] = fb
               /\ \A i \in 1..(lfsr_len - 1) : cur_sets'[i] = cur_sets[i - 1]
               /\ rand_out' = Append(rand_out, fb)
       /\ pc = "loop" =>
            /\ Len(rand_out') >= Len(rand_out)
            /\ \A k \in 1..Len(rand_out) : rand_out'[k] = rand_out[k]
       /\ pc' = "gen_verilog" =>
            Len(rand_out') = (IF out_width > 0 THEN out_width ELSE 0)
      ]_vars

CyclesDone ==
    /\ pc = "gen_verilog"
    /\ Len(rand_out) = 4
    /\ lfsr_len = 4
    /\ Len(one_indices) = 3

\* C10: the non-reset assignment of the emitted sequential module
\* concatenates the low bits [width-2:0] with fb into exactly width bits,
\* with no negative bit index, for every accepted polynomial
ShiftConcatValid ==
    seq_file.state = "written" =>
        LET c == seq_file.code
        IN /\ c.shift_hi >= c.shift_lo
           /\ c.shift_lo >= 0
           /\ (c.shift_hi - c.shift_lo + 1) + 1 = c.lfsr_wd

====
